---------------------------- MODULE Spec2Model ----------------------------
(***************************************************************************)
(* Model of kangas/__init__.py: the process scanner (_is_running,          *)
(* _process_method), the instance supervisor (terminate, launch) and the   *)
(* presenter (show).  The operating system's process table, the cloud      *)
(* notebook proxy and the spawned server are the environment.              *)
(***************************************************************************)
EXTENDS Integers, Sequences, FiniteSets, TLC

(***************************************************************************)
(* Bounds of the model.                                                    *)
(***************************************************************************)
\* largest process table drawn as an initial state of SpecScan
MaxTable == 2
\* capacity of the process table: Popen is not taken when the table is full
MaxProcs == 2

(***************************************************************************)
(* Strings.  A string the code searches in (a process name, a command      *)
(* line) is a sequence of characters, so that str.startswith, " ".join and *)
(* the `in` operator are computed and not assumed.                         *)
(***************************************************************************)
Node == <<"n", "o", "d", "e">>
Kangas == <<"k", "a", "n", "g", "a", "s">>
Server == <<"s", "e", "r", "v", "e", "r">>
Python == <<"p", "y", "t", "h", "o", "n", "3">>

\* s.startswith(p)
StartsWith(s, p) == Len(p) <= Len(s) /\ SubSeq(s, 1, Len(p)) = p

\* sub in s
Contains(s, sub) == \E k \in 0..(Len(s) - Len(sub)) : SubSeq(s, k + 1, k + Len(sub)) = sub

\* " ".join(args)
RECURSIVE Join(_)
Join(args) ==
    IF Len(args) = 0 THEN <<>>
    ELSE IF Len(args) = 1 THEN args[1]
    ELSE args[1] \o <<" ">> \o Join(Tail(args))

(***************************************************************************)
(* The programs a process of the table may be running: what psutil's       *)
(* name() and cmdline() return for it.                                     *)
(*   frontend  the node server of the pair: node kangas/fe.js              *)
(*   nodeapp   some other node program:     node app.js                    *)
(*   cli       the console script:          kangas server                  *)
(*   pyserver  the child launch() starts:   python3 -m kangas.cli.server   *)
(***************************************************************************)
Images == {"frontend", "nodeapp", "cli", "pyserver"}

ProcName(img) ==
    CASE img = "frontend" -> Node
      [] img = "nodeapp" -> Node \o <<"j", "s">>
      [] img = "cli" -> Kangas
      [] img = "pyserver" -> Python

ProcCmdline(img) ==
    CASE img = "frontend" -> <<Node, Kangas \o <<"/", "f", "e", ".", "j", "s">>>>
      [] img = "nodeapp" -> <<Node \o <<"j", "s">>, <<"a", "p", "p", ".", "j", "s">>>>
      [] img = "cli" -> <<Kangas, Server>>
      [] img = "pyserver" -> <<Python, <<"-", "m">>, Kangas \o <<".", "c", "l", "i", ".">> \o Server>>

(***************************************************************************)
(* What psutil reports for one pid of the snapshot psutil.pids() returned: *)
(*   running     alive                                                     *)
(*   zombie      status() is STATUS_ZOMBIE (is_running() is still True)    *)
(*   exited      gone after its name and command line were read:           *)
(*               is_running() is False, terminate() raises NoSuchProcess   *)
(*   lookupFail  psutil.Process(pid) raises                                *)
(*   readFail    name() or cmdline() raises (AccessDenied, NoSuchProcess,  *)
(*               ZombieProcess)                                            *)
(*   termFail    alive, and terminate() raises AccessDenied                *)
(***************************************************************************)
Conds == {"running", "zombie", "exited", "lookupFail", "readFail", "termFail"}

\* Python's None, where the code tests for it
None == "None"

\* no command: the call has spawned nothing
NoCmd == <<>>

\* a process of the table.  sig: its terminate() method was invoked; port: the
\* --frontend-port launch() started its pair with, 0 when launch() did not
\* start it; up: (pyserver) it started its frontend
Proc(img, cond, port) ==
    [img |-> img, cond |-> cond, sig |-> FALSE, port |-> port, up |-> FALSE]

(***************************************************************************)
(* ProcessScanner                                                          *)
(***************************************************************************)
\* mutant: the command line is not looked at
MatchesNameOnly(p, name, command) == StartsWith(ProcName(p.img), name)

\* process.name().startswith(name) and command in " ".join(process.cmdline())
Matches(p, name, command) ==
    StartsWith(ProcName(p.img), name) /\ Contains(Join(ProcCmdline(p.img)), command)

\* process.is_running() and process.status() != psutil.STATUS_ZOMBIE
Alive(p) == p.cond # "exited" /\ p.cond # "zombie"

\* _is_running(name, command) over the pids k.. of the snapshot ps:
\* "true", "false", or "raise" when name()/cmdline() raises
RECURSIVE IsRunningFrom(_, _, _, _)
IsRunningFrom(ps, k, name, command) ==
    IF k > Len(ps) THEN "false"
    ELSE IF ps[k].cond = "lookupFail" THEN IsRunningFrom(ps, k + 1, name, command)
    ELSE IF ps[k].cond = "readFail" THEN "raise"
    ELSE IF Matches(ps[k], name, command)
         THEN (IF Alive(ps[k]) THEN "true" ELSE "false")
    ELSE IsRunningFrom(ps, k + 1, name, command)

IsRunning(ps, name, command) == IsRunningFrom(ps, 1, name, command)

\* getattr(process, "terminate")() on process k: SIGTERM is sent, or the call raises
InvokeTerminate(ps, k) ==
    IF ps[k].cond \in {"exited", "termFail"}
    THEN [err |-> "terminate", procs |-> ps]
    ELSE [err |-> "none", procs |-> [ps EXCEPT ![k].sig = TRUE]]

\* _process_method(name, command, "terminate") over the pids k.. of the snapshot
RECURSIVE ProcessMethodFrom(_, _, _, _)
ProcessMethodFrom(ps, k, name, command) ==
    IF k > Len(ps) THEN [err |-> "none", procs |-> ps]
    ELSE IF ps[k].cond = "lookupFail" THEN ProcessMethodFrom(ps, k + 1, name, command)
    ELSE IF ps[k].cond = "readFail" THEN [err |-> "scan", procs |-> ps]
    ELSE IF Matches(ps[k], name, command) THEN InvokeTerminate(ps, k)
    ELSE ProcessMethodFrom(ps, k + 1, name, command)

ProcessMethod(ps, name, command) == ProcessMethodFrom(ps, 1, name, command)

\* the probe terminate() uses in its first and in its second _process_method call
TerminateProbe(n) ==
    IF n = 1 THEN [name |-> Node, command |-> Kangas]
    ELSE [name |-> Kangas, command |-> Server]

(***************************************************************************)
(* Values launch() and show() compute                                      *)
(***************************************************************************)
\* the default of launch's and show's port parameter
DefaultPort == 4000

\* the ports the callers pass: the default, and the one next to it
Ports == {DefaultPort, DefaultPort + 1}

\* the hosts the callers pass
Hosts == {None, "example.org"}

\* get_localhost(): the address host resolves to when the caller passes none
LocalHost == "localhost"

\* host if host is not None else get_localhost()
ResolveHost(host) == IF host # None THEN host ELSE LocalHost

\* mutant: the backend is given the frontend's port
BackendPortSame(port) == port

\* the port of the backend server: port + 1
BackendPort(port) == port + 1

\* what google.colab.kernel.proxyPort(port) evaluates to: the proxied URL of port
ProxyPort(port) == ToString(<<"proxy", port>>)

\* the argument list launch() passes to subprocess.Popen
SpawnCommand(host, port, debug, proxy) ==
    <<"sys.executable", "-m", "kangas.cli.server",
      "--frontend-port", ToString(port),
      "--backend-port", ToString(BackendPort(port)),
      "--open", "no">>
    \o (IF host # None THEN <<"--host", host>> ELSE <<>>)
    \o (IF proxy # None THEN <<"--backend-proxy", proxy>> ELSE <<>>)
    \o (IF debug THEN <<"--debug">> ELSE <<>>)

\* "http://%s:%s/" % (host, port)
Url(host, port) == <<"http://", host, ":", ToString(port), "/">>

\* mutant: the if of line 91 is entered whatever _is_running answered
AfterScanAlwaysStarts(running) == "term1"

\* mutant: the terminate() of line 92 is left out
AfterScanSkipsTerminate(running) == IF running = "true" THEN "return" ELSE "token"

\* where launch() goes after _is_running("node", "kangas"): into the if, or to return
AfterScan(running) == IF running = "true" THEN "return" ELSE "term1"

\* the datagrid arguments the callers pass: none, the empty string, "./a b"
NoDatagrid == <<None>>
Datagrids == {NoDatagrid, <<>>, <<".", "/", "a", " ", "b">>}

\* mutant: the test is `datagrid is not None`
TruthyNotNone(datagrid) == datagrid # NoDatagrid

\* Python's truth value of the datagrid argument
Truthy(datagrid) == datagrid # NoDatagrid /\ datagrid # <<>>

\* urllib.parse.quote_plus on one character
QuoteChar(ch) ==
    CASE ch = " " -> <<"+">>
      [] ch = "/" -> <<"%", "2", "F">>
      [] OTHER -> <<ch>>

RECURSIVE QuotePlus(_)
QuotePlus(s) == IF Len(s) = 0 THEN <<>> ELSE QuoteChar(Head(s)) \o QuotePlus(Tail(s))

\* qvs: "?" + urllib.parse.urlencode({"datagrid": datagrid}), or ""
QueryString(datagrid) ==
    IF Truthy(datagrid)
    THEN <<"?", "datagrid", "=">> \o QuotePlus(datagrid)
    ELSE <<>>

\* mutant: the inline frame is pointed at the proxy of the backend port
ShowProxyPortBackend(port) == port + 1

\* the port show() formats into the proxyPort call of the inline frame
ShowProxyPort(port) == port

\* the display channels show() uses under the two environment markers
Channels == {"proxy", "iframe", "browser"}

\* mutant: the notebook branch is an if of its own, not an elif
ChannelTakenNoElif(ch, colab, jupyter) ==
    CASE ch = "proxy" -> colab
      [] ch = "iframe" -> jupyter
      [] ch = "browser" -> ~colab /\ ~jupyter

ChannelTaken(ch, colab, jupyter) ==
    CASE ch = "proxy" -> colab
      [] ch = "iframe" -> ~colab /\ jupyter
      [] ch = "browser" -> ~colab /\ ~jupyter

ChannelsUsed(colab, jupyter) == {ch \in Channels : ChannelTaken(ch, colab, jupyter)}

(***************************************************************************)
(* State                                                                   *)
(***************************************************************************)
VARIABLES
    procs,     \* the live processes of the host, in the order psutil.pids() lists them
    calls,     \* per caller: the call in progress and what it has done so far
    ctx,       \* [colab, jupyter]: what _in_colab_environment() and
               \* _in_jupyter_environment() answer
    proxy      \* the module global KANGAS_BACKEND_PROXY

vars == <<procs, calls, ctx, proxy>>

\* the callers: threads of one interpreter, which share KANGAS_BACKEND_PROXY
Callers == {"A", "B"}

\* nothing displayed: no channel is pointed at anything
NotShown == [ch \in {} |-> <<>>]

\* no call yet.  conc is history: a terminate() call of another caller was in
\* progress when this launch() call returned after its settle delay
Idle ==
    [op |-> "none", pc |-> "idle", name |-> <<>>, command |-> <<>>,
     host |-> None, port |-> DefaultPort, debug |-> FALSE, datagrid |-> NoDatagrid,
     running |-> "none", nterm |-> 0, asked |-> 0, cmd |-> NoCmd, slept |-> FALSE,
     url |-> <<>>, err |-> "none", shown |-> NotShown, conc |-> FALSE]

\* mutant: a call begins only while no other call is in progress
ReadyWhenAlone(i) == \A j \in Callers : calls[j].pc \in {"idle", "done", "raised"}

\* a caller is between calls: nothing else is asked before a call begins
Ready(i) == calls[i].pc \in {"idle", "done", "raised"}

\* an exception leaves the call
Raise(call, err) == [call EXCEPT !.pc = "raised", !.err = err]

(***************************************************************************)
(* _is_running(name, command), called directly                             *)
(***************************************************************************)
IsRunningCall(i, name, command) ==
    /\ Ready(i)
    /\ LET r == IsRunning(procs, name, command)
           call == [Idle EXCEPT !.op = "is_running", !.name = name,
                                !.command = command, !.running = r]
       IN calls' = [calls EXCEPT ![i] =
                        IF r = "raise" THEN Raise(call, "scan")
                        ELSE [call EXCEPT !.pc = "done"]]
    /\ UNCHANGED <<procs, ctx, proxy>>

(***************************************************************************)
(* terminate()                                                             *)
(***************************************************************************)
TerminateCall(i) ==
    /\ Ready(i)
    /\ calls' = [calls EXCEPT ![i] = [Idle EXCEPT !.op = "terminate", !.pc = "term1"]]
    /\ UNCHANGED <<procs, ctx, proxy>>

\* where a call goes when terminate() has returned
AfterTerminate(op) == IF op = "terminate" THEN "done" ELSE "token"

\* one _process_method call of terminate(): the n-th probe
TerminateStep(i, n) ==
    /\ calls[i].pc = (IF n = 1 THEN "term1" ELSE "term2")
    /\ LET probe == TerminateProbe(n)
           r == ProcessMethod(procs, probe.name, probe.command)
       IN /\ procs' = r.procs
          /\ calls' = [calls EXCEPT ![i] =
                 IF r.err # "none" THEN Raise(@, r.err)
                 ELSE [@ EXCEPT !.nterm = n,
                                !.pc = IF n = 1 THEN "term2"
                                      ELSE AfterTerminate(calls[i].op)]]
    /\ UNCHANGED <<ctx, proxy>>

(***************************************************************************)
(* launch(host, port, debug), called directly or by show()                 *)
(***************************************************************************)
\* launch() returns its URL; show() goes on to display it
Return(call) ==
    [call EXCEPT !.url = Url(call.host, call.port),
                 !.pc = IF call.op = "show" THEN "display" ELSE "done"]

\* lines 89-91: the host is resolved and the process table is scanned
LaunchCall(i, op, host, port, debug, datagrid) ==
    /\ Ready(i)
    /\ LET r == IsRunning(procs, Node, Kangas)
           call == [Idle EXCEPT !.op = op, !.host = ResolveHost(host), !.port = port,
                                !.debug = debug, !.datagrid = datagrid, !.running = r]
       IN calls' = [calls EXCEPT ![i] =
                        IF r = "raise" THEN Raise(call, "scan")
                        ELSE IF AfterScan(r) = "return" THEN Return(call)
                        ELSE [call EXCEPT !.pc = AfterScan(r)]]
    /\ UNCHANGED <<procs, ctx, proxy>>

\* mutant: the token is asked for in every context
NeedsProxyAlways(context) == TRUE

\* line 93: if _in_colab_environment()
NeedsProxy(context) == context.colab

\* mutant: a failed token request is noted and launch() goes on to spawn
ProxyFailureGoesOn(call) == [call EXCEPT !.err = "proxy", !.pc = "spawn"]

\* lines 96-99: output.eval_js raises, and nothing in launch() catches it
ProxyFailure(call) == Raise(call, "proxy")

\* lines 93-99: in a cloud notebook the proxy token of the backend port is asked
\* for, and the request may fail
AcquireProxy(i) ==
    /\ calls[i].pc = "token"
    /\ IF NeedsProxy(ctx)
       THEN \E ok \in BOOLEAN :
              IF ok
              THEN /\ proxy' = ProxyPort(BackendPort(calls[i].port))
                   /\ calls' = [calls EXCEPT ![i].asked = BackendPort(calls[i].port),
                                             ![i].pc = "spawn"]
              ELSE /\ calls' = [calls EXCEPT ![i] = ProxyFailure(@)]
                   /\ UNCHANGED proxy
       ELSE /\ calls' = [calls EXCEPT ![i].pc = "spawn"]
            /\ UNCHANGED proxy
    /\ UNCHANGED <<procs, ctx>>

\* lines 101-122: subprocess.Popen starts the server, or fails
Popen(i) ==
    /\ calls[i].pc = "spawn"
    /\ \E ok \in BOOLEAN :
         IF ok
         THEN /\ Len(procs) < MaxProcs
              /\ LET cmd == SpawnCommand(calls[i].host, calls[i].port, calls[i].debug, proxy)
                 IN /\ procs' = Append(procs, Proc("pyserver", "running", calls[i].port))
                    /\ calls' = [calls EXCEPT ![i].cmd = cmd, ![i].pc = "sleep"]
         ELSE /\ calls' = [calls EXCEPT ![i] = Raise(@, "spawn")]
              /\ UNCHANGED procs
    /\ UNCHANGED <<ctx, proxy>>

\* a terminate() call of another caller is in progress
TerminateInProgress(i) ==
    \E j \in Callers \ {i} :
      calls[j].op = "terminate" /\ calls[j].pc \in {"term1", "term2"}

\* mutant: the settle delay is left out
NoSleep(call) == call

\* line 123: time.sleep(2)
Sleep(call) == [call EXCEPT !.slept = TRUE]

\* lines 123-125: time.sleep(2), then the URL is returned
Settle(i) ==
    /\ calls[i].pc = "sleep"
    /\ calls' = [calls EXCEPT ![i] =
                     [Return(Sleep(@)) EXCEPT !.conc = TerminateInProgress(i)]]
    /\ UNCHANGED <<procs, ctx, proxy>>

(***************************************************************************)
(* show(): lines 160-189, after launch() has returned                      *)
(***************************************************************************)
\* what the channel is pointed at; shown maps each channel used to it
DisplaySrc(ch, call) ==
    IF ch = "proxy"
    THEN <<ProxyPort(ShowProxyPort(call.port))>> \o QueryString(call.datagrid)
    ELSE call.url \o QueryString(call.datagrid)

Display(i) ==
    /\ calls[i].pc = "display"
    /\ LET used == ChannelsUsed(ctx.colab, ctx.jupyter)
       IN calls' = [calls EXCEPT ![i].shown = [ch \in used |-> DisplaySrc(ch, calls[i])],
                                 ![i].pc = "done"]
    /\ UNCHANGED <<procs, ctx, proxy>>

(***************************************************************************)
(* The environment: the spawned server and the operating system            *)
(***************************************************************************)
\* the table without its k-th process
Remove(ps, k) == SubSeq(ps, 1, k - 1) \o SubSeq(ps, k + 1, Len(ps))

\* kangas.cli.server starts the node frontend of its pair
ServerStartsFrontend(k) ==
    /\ k \in 1..Len(procs)
    /\ procs[k].img = "pyserver" /\ procs[k].cond = "running" /\ ~procs[k].up
    /\ Len(procs) < MaxProcs
    /\ procs' = Append([procs EXCEPT ![k].up = TRUE],
                       Proc("frontend", "running", procs[k].port))
    /\ UNCHANGED <<calls, ctx, proxy>>

\* a process that had exited during a scan is no longer listed; a process that
\* was sent SIGTERM leaves the table, or stays in it as a zombie until its
\* parent reaps it
ProcessExits(k) ==
    /\ k \in 1..Len(procs)
    /\ \/ /\ procs[k].cond = "exited"
          /\ procs' = Remove(procs, k)
       \/ /\ procs[k].sig /\ procs[k].cond = "running"
          /\ \/ procs' = Remove(procs, k)
             \/ procs' = [procs EXCEPT ![k].cond = "zombie"]
    /\ UNCHANGED <<calls, ctx, proxy>>

\* a zombie is reaped
Reap(k) ==
    /\ k \in 1..Len(procs)
    /\ procs[k].cond = "zombie"
    /\ procs' = Remove(procs, k)
    /\ UNCHANGED <<calls, ctx, proxy>>

Environment == \E k \in 1..MaxProcs : ServerStartsFrontend(k) \/ ProcessExits(k) \/ Reap(k)

\* the steps of a terminate() or launch() call in progress
Step(i) ==
    \/ TerminateStep(i, 1)
    \/ TerminateStep(i, 2)
    \/ AcquireProxy(i)
    \/ Popen(i)
    \/ Settle(i)

(***************************************************************************)
(* Spec: two callers call launch() and terminate() concurrently on a host  *)
(* that runs no service yet.                                               *)
(***************************************************************************)
Contexts == [colab : BOOLEAN, jupyter : BOOLEAN]

Init ==
    /\ procs = <<>>
    /\ calls = [i \in Callers |-> Idle]
    /\ ctx \in {x \in Contexts : ~x.jupyter}
    /\ proxy = None

Next ==
    \/ \E i \in Callers :
         \/ TerminateCall(i)
         \/ \E port \in Ports : LaunchCall(i, "launch", None, port, FALSE, NoDatagrid)
         \/ Step(i)
    \/ Environment

Spec == Init /\ [][Next]_vars

(***************************************************************************)
(* SpecScan: one caller scans and terminates over any small process table. *)
(***************************************************************************)
\* the process tables of at most n processes
RECURSIVE Tables(_)
Tables(n) ==
    IF n = 0 THEN {<<>>}
    ELSE Tables(n - 1) \cup
         {Append(t, Proc(img, cond, 0)) :
            t \in {u \in Tables(n - 1) : Len(u) = n - 1}, img \in Images, cond \in Conds}

\* the probes _is_running is called with
Probes == {<<Node, Kangas>>, <<Kangas, Server>>, <<Node, Server>>}

InitScan ==
    /\ procs \in Tables(MaxTable)
    /\ calls = [i \in Callers |-> Idle]
    /\ ctx = [colab |-> FALSE, jupyter |-> FALSE]
    /\ proxy = None

NextScan ==
    \/ \E pr \in Probes : IsRunningCall("A", pr[1], pr[2])
    \/ TerminateCall("A")
    \/ LaunchCall("A", "launch", None, DefaultPort, FALSE, NoDatagrid)
    \/ Step("A")
    \/ Environment

SpecScan == InitScan /\ [][NextScan]_vars

(***************************************************************************)
(* SpecShow: one caller calls launch(), show() and terminate() with every  *)
(* argument, in every execution context.                                   *)
(***************************************************************************)
InitShow ==
    /\ procs = <<>>
    /\ calls = [i \in Callers |-> Idle]
    /\ ctx \in Contexts
    /\ proxy = None

NextShow ==
    \/ \E op \in {"launch", "show"}, host \in Hosts, port \in Ports,
          debug \in BOOLEAN, datagrid \in Datagrids :
         LaunchCall("A", op, host, port, debug, datagrid)
    \/ TerminateCall("A")
    \/ Step("A")
    \/ Display("A")
    \/ Environment

SpecShow == InitShow /\ [][NextShow]_vars

(***************************************************************************)
(* Properties                                                              *)
(***************************************************************************)
\* the servers launch() has started that are still alive
LivePairs == {k \in 1..Len(procs) : procs[k].img = "pyserver" /\ procs[k].cond = "running"}

\* C1: whatever the interleaving of the callers' scans, terminations, spawns
\* and settle delays, launch() never spawns a service pair while a pair that
\* an earlier spawn started is still alive.
C1_AtMostOnePair ==
    [][\A i \in Callers :
         (calls[i].pc = "spawn" /\ calls'[i].pc = "sleep") => LivePairs = {}]_vars


\* a launch() call, direct or made by show()
IsLaunch(call) == call.op \in {"launch", "show"}

\* C2: a launch() that finds the pair running spawns nothing, does not call
\* terminate(), asks for no proxy token, does not sleep, and returns
\* http://{host}:{port}/.
C2_RunningNoSpawn ==
    \A i \in Callers :
      (IsLaunch(calls[i]) /\ calls[i].running = "true") =>
        /\ calls[i].cmd = NoCmd
        /\ calls[i].nterm = 0
        /\ calls[i].asked = 0
        /\ ~calls[i].slept
        /\ calls[i].err = "none"
        /\ calls[i].url = <<"http://", calls[i].host, ":", ToString(calls[i].port), "/">>

\* C2's case: a second launch() found the frontend that an earlier launch()
\* had started, and returned
C2_Witness ==
    /\ calls["A"].op = "launch" /\ calls["A"].running = "true" /\ calls["A"].pc = "done"
    /\ \E k \in 1..Len(procs) : procs[k].img = "frontend" /\ procs[k].port # 0

\* C3: a launch() call spawns only after its own terminate() has gone through
\* both probes: no step spawns in a call whose terminate() has not returned.
C3_TerminateBeforeSpawn ==
    [][\A i \in Callers :
         (calls'[i].cmd # NoCmd /\ calls[i].cmd = NoCmd) =>
           /\ calls[i].running = "false"
           /\ calls[i].nterm = 2]_vars

\* C3's case: a launch() that found no running frontend has terminated a
\* stale process and then spawned
C3_Witness ==
    /\ calls["A"].op = "launch" /\ calls["A"].cmd # NoCmd /\ calls["A"].nterm = 2
    /\ \E k \in 1..Len(procs) : procs[k].sig


\* psutil can read process p, and its name starts with name and its command
\* line contains command
Readable(p) == p.cond \notin {"lookupFail", "readFail"}

NameAndCommand(p, name, command) ==
    /\ Readable(p)
    /\ StartsWith(ProcName(p.img), name)
    /\ Contains(Join(ProcCmdline(p.img)), command)

\* call i's terminate() returns from the _process_method call of its n-th probe
ProbeDone(i, n) == calls[i].nterm = n - 1 /\ calls'[i].nterm = n

\* C4: when terminate() is through with a probe, every process that matches
\* that probe has had its terminate method invoked, also when several processes
\* match the same probe.
C4_TerminatesEveryMatch ==
    [][\A i \in Callers : \A n \in {1, 2} :
         ProbeDone(i, n) =>
           \A k \in 1..Len(procs) :
             NameAndCommand(procs[k], TerminateProbe(n).name, TerminateProbe(n).command)
               => procs'[k].sig]_vars

\* C5: terminate() is best effort: a process whose termination fails is
\* skipped, and no such failure reaches the caller.
C5_TerminationFailureSwallowed == \A i \in Callers : calls[i].err # "terminate"

\* C6: a process that cannot be read during the enumeration is skipped, and no
\* such failure reaches the caller of _is_running, terminate or launch.
C6_ScanNeverAborts == \A i \in Callers : calls[i].err # "scan"

\* process p counts as running for the probe: it matches by name and command
\* line and is neither a zombie nor gone
CountsAsRunning(p, name, command) ==
    NameAndCommand(p, name, command) /\ p.cond \notin {"zombie", "exited"}

\* C7: _is_running(name, command) does not answer true on the strength of a
\* process whose command line lacks command, even if its name starts with name,
\* nor of a matching zombie: when no process counts as running the answer is
\* false (or the scan raised on an unreadable process).
C7_NoMatchIsFalse ==
    [][\A i \in Callers :
         (calls'[i] # calls[i] /\ calls'[i].op = "is_running") =>
           ((\A k \in 1..Len(procs) :
                ~CountsAsRunning(procs[k], calls'[i].name, calls'[i].command))
             => /\ calls'[i].running # "true"
                /\ (\A k \in 1..Len(procs) : Readable(procs[k]))
                     => calls'[i].running = "false")]_vars

\* C7's case: _is_running("node", "kangas") answered false over a table that
\* holds a node process without kangas in its command line and a zombie
\* frontend
C7_Witness ==
    /\ calls["A"].op = "is_running" /\ calls["A"].running = "false"
    /\ calls["A"].name = Node /\ calls["A"].command = Kangas
    /\ \E k \in 1..Len(procs) : procs[k].img = "nodeapp" /\ procs[k].cond = "running"
    /\ \E k \in 1..Len(procs) : procs[k].img = "frontend" /\ procs[k].cond = "zombie"

\* the argument that follows flag in the command cmd
ArgAfter(cmd, flag) == cmd[(CHOOSE k \in 1..(Len(cmd) - 1) : cmd[k] = flag) + 1]

\* C8: the --backend-port of every command launch() spawns, and the port of
\* every proxy token launch() asks for, is the call's port + 1.
C8_BackendPortIsNext ==
    \A i \in Callers :
      /\ calls[i].cmd # NoCmd =>
           /\ ArgAfter(calls[i].cmd, "--frontend-port") = ToString(calls[i].port)
           /\ ArgAfter(calls[i].cmd, "--backend-port") = ToString(calls[i].port + 1)
      /\ calls[i].asked # 0 => calls[i].asked = calls[i].port + 1

\* C8's case: in a cloud notebook a launch() on the second port has asked for
\* its token and spawned
C8_Witness ==
    /\ calls["A"].cmd # NoCmd /\ calls["A"].asked # 0
    /\ calls["A"].port = DefaultPort + 1

\* a show() call that has displayed
Shown(call) == call.op = "show" /\ call.pc = "done"

\* C9: in a cloud notebook show() points the inline frame at the proxied URL of
\* the backend port, port + 1, plus the query string.
C9_FrameAtBackendProxy ==
    \A i \in Callers :
      (Shown(calls[i]) /\ ctx.colab) =>
        /\ "proxy" \in DOMAIN calls[i].shown
        /\ calls[i].shown["proxy"] =
             <<ProxyPort(calls[i].port + 1)>> \o QueryString(calls[i].datagrid)

\* C9, amended: in a cloud notebook show() points the inline frame at the
\* proxied URL of the port it was called with, the frontend port, plus the
\* query string.
C9_FrameAtFrontendProxy ==
    \A i \in Callers :
      (Shown(calls[i]) /\ ctx.colab) =>
        /\ "proxy" \in DOMAIN calls[i].shown
        /\ calls[i].shown["proxy"] =
             <<ProxyPort(calls[i].port)>> \o QueryString(calls[i].datagrid)

\* C9's case: show() has displayed a datagrid in a cloud notebook
C9_Witness ==
    /\ Shown(calls["A"]) /\ ctx.colab
    /\ Truthy(calls["A"].datagrid)
    /\ "proxy" \in DOMAIN calls["A"].shown

\* C10: a show() call uses exactly one of the three display channels, and the
\* proxied inline frame whenever the cloud marker is present, the notebook
\* marker being present or not.
C10_ExactlyOneChannel ==
    \A i \in Callers :
      Shown(calls[i]) =>
        /\ Cardinality(DOMAIN calls[i].shown) = 1
        /\ ctx.colab => DOMAIN calls[i].shown = {"proxy"}

\* C10's case: show() has displayed with both markers present
C10_Witness ==
    /\ Shown(calls["A"]) /\ ctx.colab /\ ctx.jupyter
    /\ DOMAIN calls["A"].shown = {"proxy"}


\* C11: on a plain host (neither marker present) a show() call, with the
\* launch() it makes, never calls the platform proxy: it asks for no token and
\* resolves no proxied URL, whether the pair was running or not.
C11_PlainHostNoProxy ==
    \A i \in Callers :
      (calls[i].op = "show" /\ ~ctx.colab /\ ~ctx.jupyter) =>
        /\ calls[i].asked = 0
        /\ "proxy" \notin DOMAIN calls[i].shown
        /\ proxy = None

\* C11's case: on a plain host show() has spawned the pair and opened the browser
C11_Witness ==
    /\ Shown(calls["A"]) /\ ~ctx.colab /\ ~ctx.jupyter
    /\ calls["A"].cmd # NoCmd
    /\ DOMAIN calls["A"].shown = {"browser"}

LaunchUrl(call) == <<"http://", call.host, ":", ToString(call.port), "/">>

\* s is base followed by a query string that starts with "?" when the datagrid
\* argument is non-empty, and by nothing when it is absent or empty
WithQuery(s, base, datagrid) ==
    /\ Len(s) >= Len(base)
    /\ SubSeq(s, 1, Len(base)) = base
    /\ IF datagrid # NoDatagrid /\ datagrid # <<>>
       THEN Len(s) > Len(base) /\ s[Len(base) + 1] = "?"
       ELSE Len(s) = Len(base)

\* a launch() call has returned its URL
Returned(call) == IsLaunch(call) /\ call.pc \in {"display", "done"}

\* C13: launch() returns http://{host}:{port}/ on both of its branches, and
\* show() presents that URL in every context, with a query string that starts
\* with "?" appended exactly when the datagrid argument is non-empty.
C13_PresentsLaunchUrl ==
    \A i \in Callers :
      /\ Returned(calls[i]) => calls[i].url = LaunchUrl(calls[i])
      /\ Shown(calls[i]) =>
           \A ch \in DOMAIN calls[i].shown :
             WithQuery(calls[i].shown[ch], LaunchUrl(calls[i]), calls[i].datagrid)

\* C13, amended: launch() returns http://{host}:{port}/ on both of its
\* branches; show() presents that URL in the direct frame and in the browser,
\* and the proxied URL of the port in the proxied frame, in each case with a
\* query string that starts with "?" appended exactly when the datagrid
\* argument is non-empty.
C13_PresentsUrlOfChannel ==
    \A i \in Callers :
      /\ Returned(calls[i]) => calls[i].url = LaunchUrl(calls[i])
      /\ Shown(calls[i]) =>
           \A ch \in DOMAIN calls[i].shown :
             WithQuery(calls[i].shown[ch],
                       IF ch = "proxy" THEN <<ProxyPort(calls[i].port)>>
                       ELSE LaunchUrl(calls[i]),
                       calls[i].datagrid)

\* C13's case: show() has spawned the pair and presented a datagrid in a
\* direct frame
C13_Witness ==
    /\ Shown(calls["A"]) /\ calls["A"].cmd # NoCmd
    /\ calls["A"].datagrid = <<".", "/", "a", " ", "b">>
    /\ DOMAIN calls["A"].shown = {"iframe"}
    /\ calls["A"].shown["iframe"] =
         LaunchUrl(calls["A"]) \o
         <<"?", "datagrid", "=", ".", "%", "2", "F", "a", "+", "b">>


\* the program of process p matches the probe by name and command line
ProgramMatches(p, probe) ==
    /\ StartsWith(ProcName(p.img), probe.name)
    /\ Contains(Join(ProcCmdline(p.img)), probe.command)

\* no process of the table matches either probe of terminate()
NothingToTerminate ==
    \A k \in 1..Len(procs) : \A n \in {1, 2} : ~ProgramMatches(procs[k], TerminateProbe(n))

\* call i takes a step of a terminate() call
TerminateActs(i) ==
    /\ calls[i].op = "terminate"
    /\ calls[i].pc \in {"term1", "term2"}
    /\ calls'[i] # calls[i]

\* C14: while no process matches either probe, every step of a terminate()
\* call leaves the process table and the supervisor's state as they are and
\* raises nothing, in a first call and in any later one.
C14_TerminateNothingIsNoOp ==
    [][\A i \in Callers :
         (TerminateActs(i) /\ NothingToTerminate) =>
           /\ procs' = procs
           /\ proxy' = proxy
           /\ calls'[i].err = "none"]_vars


\* call i is a direct _is_running call that has just returned a value
IsRunningReturns(i) ==
    /\ calls'[i] # calls[i]
    /\ calls'[i].op = "is_running"
    /\ calls'[i].pc = "done"

\* C15: whatever the processes and their order, _is_running(name, command)
\* returns true exactly when some process matches by name and command line and
\* is alive and not a zombie; a zombie match listed before a live match does not
\* make it return false.
C15_TrueIffSomeLiveMatch ==
    [][\A i \in Callers :
         IsRunningReturns(i) =>
           (calls'[i].running = "true" <=>
              \E k \in 1..Len(procs) :
                CountsAsRunning(procs[k], calls'[i].name, calls'[i].command))]_vars

\* C16: a launch() call sleeps only after it has spawned, returns after a
\* spawn only when it has slept, returns without sleeping when it found the
\* pair running, and when Popen fails raises without sleeping or a URL.
C16_SettleExactlyAfterSpawn ==
    \A i \in Callers :
      IsLaunch(calls[i]) =>
        /\ calls[i].slept => calls[i].cmd # NoCmd
        /\ Returned(calls[i]) => (calls[i].slept <=> calls[i].cmd # NoCmd)
        /\ Returned(calls[i]) => (calls[i].slept <=> calls[i].running = "false")
        /\ calls[i].err = "spawn" =>
             /\ calls[i].pc = "raised"
             /\ ~calls[i].slept
             /\ calls[i].url = <<>>
             /\ calls[i].cmd = NoCmd

\* C16's case: a launch() has spawned, slept and returned its URL
C16_Witness ==
    /\ calls["A"].op = "launch" /\ calls["A"].pc = "done"
    /\ calls["A"].cmd # NoCmd /\ calls["A"].slept
    /\ calls["A"].url = LaunchUrl(calls["A"])


\* caller i is inside a call
InCall(i) == calls[i].pc \notin {"idle", "done", "raised"}

\* the scanner's answer for the service over the present table
ServiceRunning == IsRunning(procs, Node, Kangas) = "true"

\* C17: nothing orders terminate() and launch(): while a launch() is in
\* progress another caller can begin terminate(), while a terminate() is in
\* progress another caller can begin launch(), and inside terminate() and
\* after launch()'s spawn each call can take its next step whatever the other
\* caller is doing.  (Both end states follow: C17_Witness and C17_EndRunning.)
C17_NoOrdering ==
    \A i \in Callers : \A j \in Callers \ {i} :
      /\ (InCall(i) /\ ~InCall(j)) =>
           /\ ENABLED TerminateCall(j)
           /\ ENABLED LaunchCall(j, "launch", None, DefaultPort, FALSE, NoDatagrid)
      /\ (InCall(i) /\ calls[j].pc \in {"term1", "term2"}) =>
           ENABLED (TerminateStep(j, 1) \/ TerminateStep(j, 2))
      /\ (InCall(i) /\ calls[j].pc = "sleep") => ENABLED Settle(j)

\* both calls have returned: A's launch(), which spawned and returned its URL
\* while B's terminate() was in progress, and B's terminate()
BothReturned ==
    /\ calls["A"].op = "launch" /\ calls["A"].pc = "done"
    /\ calls["A"].cmd # NoCmd /\ calls["A"].conc
    /\ calls["A"].url = LaunchUrl(calls["A"])
    /\ calls["B"].op = "terminate" /\ calls["B"].pc = "done"

\* C17's case: both calls have returned and no service is running, the
\* frontend that the spawned server had started having been terminated
C17_Witness ==
    /\ BothReturned
    /\ ~ServiceRunning
    /\ Len(procs) = 1 /\ procs[1].img = "pyserver" /\ procs[1].up

\* the other end state: both calls have returned and the service is running
C17_EndRunning == BothReturned /\ ServiceRunning /\ Len(procs) = 2


\* caller i's launch() returns in this step
LaunchReturns(i) ==
    /\ calls'[i] # calls[i]
    /\ IsLaunch(calls'[i]) /\ calls'[i].pc = "done"

\* a pair launch() started is running: its node frontend counts for the scanner
PairRunning(p) ==
    p.img = "frontend" /\ p.port # 0 /\ CountsAsRunning(p, Node, Kangas)

\* C18: when launch() returns its URL while a pair is running, the pair was
\* started with --frontend-port equal to the port of the returned URL.
C18_ReturnedPortIsPairsPort ==
    [][\A i \in Callers :
         LaunchReturns(i) =>
           \A k \in 1..Len(procs') :
             PairRunning(procs'[k]) =>
               calls'[i].url = Url(calls'[i].host, procs'[k].port)]_vars

\* C19: a spawn command carries --backend-proxy only in a cloud notebook, and
\* then the token this same call acquired for its port + 1, never one another
\* call left in KANGAS_BACKEND_PROXY; a launch() that returns without spawning
\* has not assigned the variable.
C19_SpawnCarriesOwnToken ==
    \A i \in Callers :
      /\ (calls[i].cmd # NoCmd /\ Contains(calls[i].cmd, <<"--backend-proxy">>)) =>
           /\ ctx.colab
           /\ calls[i].asked = calls[i].port + 1
           /\ ArgAfter(calls[i].cmd, "--backend-proxy") = ProxyPort(calls[i].asked)
      /\ (IsLaunch(calls[i]) /\ calls[i].pc = "done" /\ calls[i].cmd = NoCmd) =>
           calls[i].asked = 0

====
